---- MODULE Spec2Model ----
(***************************************************************************)
(* Model of `git try-merge` (src/src/git-try-merge.rs) together with the   *)
(* Git facade it drives (src/src/common.rs): the fetch of the target, the  *)
(* precondition gate, the revision walk, the conflict classification of    *)
(* Git::merge_no_conflict, the handoff to `git merge` and the squash of    *)
(* the generated merge commits.                                            *)
(*                                                                         *)
(* The repository is a commit graph (commits), the branch HEAD points to   *)
(* (head), the working tree (workTree) and the upstream target.  The       *)
(* result of libgit2's merge computation is repository content: it is      *)
(* drawn in Init (conflicts) and never changed by the program.             *)
(*                                                                         *)
(* Spec is one run of the program.  SpecRuns is several runs one after the *)
(* other on the same repository, each of which may be killed between two   *)
(* steps.                                                                  *)
(***************************************************************************)
EXTENDS Integers, Sequences, FiniteSets, TLC

\* ------------------------------------------------------------------ bounds

\* Largest number of revisions between HEAD and the upstream target.
MaxRevs == 3

\* Largest number of commits on the local line above the user's first one.
MaxMarkers == 3

\* Largest number of runs of the program, one after the other.
MaxRuns == 2

\* ------------------------------------------------------------- identifiers

\* Commit ids are opaque: Up(i) is the i-th commit of the upstream line,
\* Loc(i) the i-th commit of the local line (Loc(0) is the user's own commit),
\* Base the root both lines share.
Base == <<"base", 0>>

Up(i) == <<"up", i>>

Loc(i) == <<"local", i>>

\* Side(i) is a commit of another branch, which the upstream line never
\* reaches.
Side(i) == <<"side", i>>

\* Option<T>: None is the empty sequence, Some(x) the sequence <<x>>.
NoneOpt == <<>>

Some(x) == <<x>>

SUCCESS == 0

\* Exit status of the process when main returns Err.
FAILURE == 1

\* -------------------------------------------------------------------- paths

\* A path is its bytes; utf8 tells whether std::str::from_utf8 accepts them.
CargoLock == [stem |-> "Cargo", ext |-> "lock", utf8 |-> TRUE]

ALock == [stem |-> "a", ext |-> "lock", utf8 |-> TRUE]

BadPath == [stem |-> "b_FF", ext |-> "lock", utf8 |-> FALSE]

MainRs == [stem |-> "main", ext |-> "rs", utf8 |-> TRUE]

\* The paths of the repository, in index (byte) order.
PathOrder == <<CargoLock, ALock, BadPath, MainRs>>

Paths == {PathOrder[i] : i \in 1..Len(PathOrder)}

\* ---------------------------------------------------------------- globs

\* A glob "<stem>.<ext>" where either part may be the wildcard "*".
GlobCargoLock == [stem |-> "Cargo", ext |-> "lock"]

GlobAnyLock == [stem |-> "*", ext |-> "lock"]

GlobMainRs == [stem |-> "main", ext |-> "rs"]

\* The values of try-merge.ignore-conflict the model draws from.
GlobSets == {{}, {GlobCargoLock}, {GlobAnyLock}, {GlobCargoLock, GlobMainRs}}

GlobMatches(glob, path) ==
    /\ glob.stem \in {"*", path.stem}
    /\ glob.ext \in {"*", path.ext}

\* Mutant of Matches: a path counts only when every glob matches it.
MatchesEveryGlob(globSet, path) ==
    IF \A g \in globSet : GlobMatches(g, path) THEN globSet ELSE {}

\* GlobSet::matches: the globs of the set that match the path.
Matches(globSet, path) == {g \in globSet : GlobMatches(g, path)}

\* ------------------------------------------------------- merge computation

\* One conflict of the merged index: its path and whether the "their" side
\* has an entry (it has none when upstream deleted the file).
Conflict(path, their) == [path |-> path, their |-> their]

\* The conflict lists libgit2 may report for one merge, each in index order.
ConflictLists ==
    { <<>>,
      <<Conflict(CargoLock, TRUE)>>,
      <<Conflict(ALock, TRUE)>>,
      <<Conflict(MainRs, TRUE)>>,
      <<Conflict(ALock, FALSE)>>,
      <<Conflict(CargoLock, TRUE), Conflict(MainRs, TRUE)>>,
      <<Conflict(CargoLock, TRUE), Conflict(ALock, TRUE)>>,
      <<Conflict(ALock, TRUE), Conflict(BadPath, TRUE)>>,
      <<Conflict(BadPath, TRUE), Conflict(MainRs, TRUE)>> }

\* File contents are symbolic.
Absent == [k |-> "absent", a |-> Base, b |-> Base]

OrigBlob(c) == [k |-> "orig", a |-> c, b |-> Base]

MergedBlob(our, their) == [k |-> "merged", a |-> our, b |-> their]

TheirBlob(their) == [k |-> "their", a |-> their, b |-> Base]

EditedBlob == [k |-> "edited", a |-> Base, b |-> Base]

MarkedBlob(their) == [k |-> "markers", a |-> their, b |-> Base]

OrigTree(c) == [p \in Paths |-> OrigBlob(c)]

ConflictPaths(cs) == {cs[i].path : i \in 1..Len(cs)}

\* Repository::merge_commits: an in-memory index.  A conflicting path has no
\* stage-0 entry, every other path holds the merged content.
MergeCommits(our, their, cs) ==
    [p \in Paths |->
        IF p \in ConflictPaths(cs)
        THEN [stage0 |-> Absent, conflicted |-> TRUE]
        ELSE [stage0 |-> MergedBlob(our, their), conflicted |-> FALSE]]

\* Index::remove_path: drops the stage-0 entry and the conflict of the path.
IndexRemovePath(index, path) ==
    [index EXCEPT ![path] = [stage0 |-> Absent, conflicted |-> FALSE]]

\* Index::add of a stage-0 entry: it replaces the stage-0 entry of its path
\* and leaves the conflict entries (stages 1 to 3) of that path in place.
IndexAdd(index, path, blob) ==
    [index EXCEPT ![path] = [stage0 |-> blob, conflicted |-> @.conflicted]]

\* Index::write_tree_to refuses an index that still holds a conflict.
IndexHasConflicts(index) == \E p \in Paths : index[p].conflicted

WriteTree(index) == [p \in Paths |-> index[p].stage0]

\* ------------------------------------------------------------------ messages

\* A commit message: its leading words, the revision it embeds, its tail.
FormatMerge(rev, tail) ==
    [words |-> <<"Merge", "commit">>, rev |-> rev, tail |-> tail]

\* Mutant of NoConflictMessage: the message does not embed the revision.
NoConflictMessageOfBase(rev) == FormatMerge(Base, "(no conflict)")

NoConflictMessage(rev) == FormatMerge(rev, "(no conflict)")

ConflictsMessage(rev) == FormatMerge(rev, "(conflicts)")

\* Mutant of SquashMessage: the squash commit is named like a marker commit.
SquashMessageAsMarker(top) ==
    [words |-> <<"Merge", "commit">>, rev |-> top, tail |-> ""]

\* format!("Merge branch {}", top_rev)
SquashMessage(top) == [words |-> <<"Merge", "branch">>, rev |-> top, tail |-> ""]

UserMessage == [words |-> <<"Add", "feature">>, rev |-> Base, tail |-> ""]

\* The message git itself proposes for `git merge <commit id>`, the user's own
\* merge of a commit: "Merge commit '<id>'".
GitMergeMessage(rev) ==
    [words |-> <<"Merge", "commit">>, rev |-> rev, tail |-> "'quoted'"]

\* msg.starts_with("Merge commit")
StartsWithMergeCommit(msg) ==
    /\ Len(msg.words) >= 2
    /\ SubSeq(msg.words, 1, 2) = <<"Merge", "commit">>

\* -------------------------------------------------------------- commit graph

Commit(parents, message, tree) ==
    [parents |-> parents, message |-> message, tree |-> tree]

ParentSet(cs, c) == {cs[c].parents[i] : i \in 1..Len(cs[c].parents)}

\* The commits reachable from the set S (S included).
RECURSIVE Reach(_, _)
Reach(cs, S) ==
    LET more == S \cup UNION {ParentSet(cs, c) : c \in S}
    IN  IF more = S THEN S ELSE Reach(cs, more)

Ancestry(cs, c) == Reach(cs, {c})

\* The first-parent chain that starts at c, c first (Ancestors::next).
RECURSIVE Ancestors(_, _)
Ancestors(cs, c) ==
    IF cs[c].parents = <<>>
    THEN <<c>>
    ELSE <<c>> \o Ancestors(cs, cs[c].parents[1])

\* revwalk.hide(from); revwalk.push(to): what to reaches and from does not.
RevRange(cs, from, to) == Ancestry(cs, to) \ Ancestry(cs, from)

\* The commits of S that are a parent of no commit of S.  A range is closed
\* under the paths between its commits, so these are its commits without a
\* descendant in it.
Childless(cs, S) == {c \in S : \A d \in S : c \notin ParentSet(cs, d)}

\* The orders Sort::TOPOLOGICAL | Sort::REVERSE may list a range in: every
\* commit after all of its ancestors (oldest first).
RECURSIVE TopoOrders(_, _)
TopoOrders(cs, S) ==
    IF S = {}
    THEN {<<>>}
    ELSE UNION {{Append(s, c) : s \in TopoOrders(cs, S \ {c})} :
                   c \in Childless(cs, S)}

\* Git::rev_list(from, to, reversed = true)
RevList(cs, from, to) == TopoOrders(cs, RevRange(cs, from, to))

\* Mutant of Pop: takes the first element (Vec::remove(0)).
PopFront(list) ==
    [revision |-> list[1], rest |-> SubSeq(list, 2, Len(list))]

\* Mutant of Pop: reads the last element and leaves it in the vector.
PopPeeks(list) ==
    [revision |-> list[Len(list)], rest |-> list]

\* Vec::pop: takes the LAST element of the vector.
Pop(list) ==
    [revision |-> list[Len(list)], rest |-> SubSeq(list, 1, Len(list) - 1)]

\* The id the next commit written on the local line gets.
NewId(cs) == Loc(Cardinality({c \in DOMAIN cs : c[1] = "local"}))

\* Repository::commit(Some("HEAD"), .., message, tree, parents): the commit
\* object it writes.
WriteCommit(cs, parents, message, tree) ==
    (NewId(cs) :> Commit(parents, message, tree)) @@ cs

\* Git::has_file_changes: the working tree and index differ from HEAD's tree.
HasFileChanges(cs, h, wt) == wt # cs[h].tree

\* --------------------------------------------------- Git::merge_no_conflict

\* Mutant of ConflictLoop: a conflict no glob matches is passed over
\* (`continue`) instead of ending the attempt.
RECURSIVE ConflictLoopPassesOver(_, _, _, _, _, _)
ConflictLoopPassesOver(cl, i, index, ignored, globSet, their) ==
    IF i > Len(cl)
    THEN [kind |-> "ok", index |-> index, ignored |-> ignored]
    ELSE IF ~cl[i].their
    THEN [kind |-> "none", index |-> index, ignored |-> ignored]
    ELSE IF ~cl[i].path.utf8
    THEN [kind |-> "err", index |-> index, ignored |-> ignored]
    ELSE IF Matches(globSet, cl[i].path) = {}
    THEN ConflictLoopPassesOver(cl, i + 1, index, ignored, globSet, their)
    ELSE ConflictLoopPassesOver(cl, i + 1,
                      IndexAdd(IndexRemovePath(index, CargoLock),
                               cl[i].path, TheirBlob(their)),
                      Append(ignored, cl[i].path), globSet, their)

\* Mutant of ConflictLoop: a path that is not UTF-8 is skipped.
RECURSIVE ConflictLoopSkipsEncoding(_, _, _, _, _, _)
ConflictLoopSkipsEncoding(cl, i, index, ignored, globSet, their) ==
    IF i > Len(cl)
    THEN [kind |-> "ok", index |-> index, ignored |-> ignored]
    ELSE IF ~cl[i].their
    THEN [kind |-> "none", index |-> index, ignored |-> ignored]
    ELSE IF ~cl[i].path.utf8
    THEN ConflictLoopSkipsEncoding(cl, i + 1, index, ignored, globSet, their)
    ELSE IF Matches(globSet, cl[i].path) = {}
    THEN [kind |-> "none", index |-> index, ignored |-> ignored]
    ELSE ConflictLoopSkipsEncoding(cl, i + 1,
                      IndexAdd(IndexRemovePath(index, CargoLock),
                               cl[i].path, TheirBlob(their)),
                      Append(ignored, cl[i].path), globSet, their)

\* The loop over the conflicts of the merged index.  It ends "none" at a
\* conflict with no "their" entry or whose path no glob matches, "err" at a
\* path that is not UTF-8, and "ok" when every conflict was re-staged.
RECURSIVE ConflictLoop(_, _, _, _, _, _)
ConflictLoop(cl, i, index, ignored, globSet, their) ==
    IF i > Len(cl)
    THEN [kind |-> "ok", index |-> index, ignored |-> ignored]
    ELSE IF ~cl[i].their
    THEN [kind |-> "none", index |-> index, ignored |-> ignored]
    ELSE IF ~cl[i].path.utf8
    THEN [kind |-> "err", index |-> index, ignored |-> ignored]
    ELSE IF Matches(globSet, cl[i].path) = {}
    THEN [kind |-> "none", index |-> index, ignored |-> ignored]
    ELSE ConflictLoop(cl, i + 1,
                      IndexAdd(IndexRemovePath(index, CargoLock),
                               cl[i].path, TheirBlob(their)),
                      Append(ignored, cl[i].path), globSet, their)

\* Mutant of MergeParents: the two parents in the other order.
MergeParentsSwapped(our, their) == <<their, our>>

\* Mutant of MergeParents: the merged revision is not recorded as a parent.
MergeParentsOursTwice(our, their) == <<our, our>>

\* The parents of the commit merge_no_conflict writes: &[&our, &their].
MergeParents(our, their) == <<our, their>>

\* Git::merge_no_conflict up to the commit it asks for, with cl the conflicts
\* libgit2 reports for merging their into our: "some" with the tree, parents
\* and ignored paths of the commit to write, "none", or "err".
MergeNoConflict(our, their, globSet, cl) ==
    LET loop == ConflictLoop(cl, 1, MergeCommits(our, their, cl), <<>>,
                             globSet, their)
        nothing == [kind |-> loop.kind, tree |-> WriteTree(loop.index),
                    parents |-> <<>>, ignored |-> <<>>]
    IN  IF loop.kind # "ok"
        THEN nothing
        ELSE IF IndexHasConflicts(loop.index)
        THEN [nothing EXCEPT !.kind = "err"]
        ELSE [kind |-> "some", tree |-> WriteTree(loop.index),
              parents |-> MergeParents(our, their), ignored |-> loop.ignored]

\* ------------------------------------------- TryMerge::squash_all_merge_commits

\* take_while(starts_with("Merge commit")) over the first-parent chain.
RECURSIVE TakeWhileMarker(_, _)
TakeWhileMarker(cs, chain) ==
    IF chain = <<>> \/ ~StartsWithMergeCommit(cs[chain[1]].message)
    THEN <<>>
    ELSE <<chain[1]>> \o TakeWhileMarker(cs, Tail(chain))

MergeCommitsOnTop(cs, h) == TakeWhileMarker(cs, Ancestors(cs, h))

\* Mutant of SquashBase: without .skip(1), one marker commit is enough.
SquashBaseOfOne(cs, h) ==
    LET run == MergeCommitsOnTop(cs, h)
    IN  IF Len(run) >= 1
        THEN Some(cs[run[Len(run)]].parents[1])
        ELSE NoneOpt

\* .skip(1).last().map(|x| x.parent(0)): the first parent of the oldest marker
\* commit when there are at least two of them, None otherwise.
SquashBase(cs, h) ==
    LET run == MergeCommitsOnTop(cs, h)
    IN  IF Len(run) >= 2
        THEN Some(cs[run[Len(run)]].parents[1])
        ELSE NoneOpt

\* Mutant of SquashRequested: every run squashes when it can.
SquashRequestedAlways(flag, config) == TRUE

\* Whether squashing was asked for: --squash or try-merge.squash = true.
SquashRequested(flag, config) == flag \/ config = "true"

\* ------------------------------------------------------------------- state

VARIABLES
    commits,        \* the object database: commit id -> commit
    head,           \* the commit the current branch (HEAD) points to
    workTree,       \* the content of the working tree and index
    target,         \* the commit top_rev resolves to in this repository
    upstream,       \* the commit the branch of top_rev has on its remote
    remote_branch,  \* top_rev.contains('/'): it names a remote branch
    conflicts,      \* upstream commit -> the conflicts of merging it into
                    \* the HEAD the run started from
    globs,          \* try-merge.ignore-conflict
    squashConfig,   \* try-merge.squash: "unset", "true" or "false"
    squash,         \* --squash
    no_merge,       \* --no-merge
    pc,             \* where TryMerge::run stands
    rev_list,       \* the revisions still to pop
    skipped,
    last_failing_revision,
    all_ignored_conflicts,
    ignored_conflicts,  \* what the last merge_no_conflict returns
    squash_head,    \* `head` of Git::squash: HEAD before the reset
    exit_code,      \* the exit status, once the process has ended
    stdout,         \* what the run printed
    range,          \* history: the revision list the walk started with
    preHead,        \* history: HEAD when the run started
    attempts,       \* history: the merge attempts, in order
    preCommits,     \* history: the commits there were when the run started
    handoff,        \* history: the invocations of `git merge` by this run
    run,            \* history: the number of this run
    earlier,        \* history: how the earlier runs ended
    branch_name,    \* git delete: the branch to delete (Delete.branch_name)
    local_branches, \* the local branches of the repository
    HEAD,           \* the local branch HEAD points to
    tracking,       \* local branch -> its configured upstream reference
    remote_HEAD,    \* the reference refs/remotes/origin/HEAD
    remote_branches,\* the branches the remote itself has
    delete_pc,      \* where Delete::run stands
    delete_error    \* the error Delete::run returned

vars == <<commits, head, workTree, target, conflicts, globs, squashConfig,
          squash, no_merge, pc, rev_list, skipped, last_failing_revision,
          all_ignored_conflicts, ignored_conflicts, exit_code, stdout,
          range, preHead, attempts, handoff, upstream, remote_branch,
          squash_head, preCommits, run, earlier, branch_name,
          local_branches, HEAD, tracking, remote_HEAD, remote_branches,
          delete_pc, delete_error>>

repo == <<commits, head, workTree>>

\* What the user and the remote decide; the run never changes the flags and
\* the configuration, and changes target only by fetching.  It never touches
\* the list of branches either, which is the state of git delete.
settings == <<conflicts, globs, squashConfig, squash, no_merge, upstream,
              remote_branch, branch_name, local_branches, HEAD, tracking,
              remote_HEAD, remote_branches, delete_pc, delete_error>>

inputs == <<target, settings>>

runs == <<run, earlier>>

locals == <<rev_list, skipped, last_failing_revision, all_ignored_conflicts,
            ignored_conflicts, squash_head>>

\* ------------------------------------------------------------------- Init

\* The upstream line U(1) .. U(k): a chain from Base; when forked, the two
\* commits below the newest one are siblings and the newest one merges them.
UpstreamParents(i, k, forked) ==
    LET below(j) == IF j = 0 THEN Base ELSE Up(j)
    IN  IF forked /\ k >= 3 /\ i = k THEN <<Up(k - 1), Up(k - 2)>>
        ELSE IF forked /\ k >= 3 /\ i = k - 1 THEN <<below(k - 3)>>
        ELSE <<below(i - 1)>>

\* The repository before the run: k upstream commits, of which the first m
\* were merged one by one into the local line by earlier runs.
InitialCommits(k, m, forked) ==
    [c \in {Base} \cup {Up(i) : i \in 1..k} \cup {Loc(i) : i \in 0..m} |->
        IF c = Base THEN Commit(<<>>, UserMessage, OrigTree(Base))
        ELSE IF c[1] = "up"
        THEN Commit(UpstreamParents(c[2], k, forked), UserMessage, OrigTree(c))
        ELSE IF c[2] = 0 THEN Commit(<<Base>>, UserMessage, OrigTree(c))
        ELSE Commit(<<Loc(c[2] - 1), Up(c[2])>>, NoConflictMessage(Up(c[2])),
                    OrigTree(c))]

\* Nothing printed yet.  merged: the revision of "All the commits to .. have
\* been merged"; ignored: the paths listed as ignored conflicts; behind and
\* failing: the count and the revision of the "still behind" report; final:
\* the closing line.
Silent ==
    [merged |-> NoneOpt, ignored |-> {}, behind |-> NoneOpt,
     failing |-> NoneOpt, final |-> ""]

\* ------------------------------------------------- git delete: the names

\* The local branches and the remotes of the repository.  A reference name is
\* the sequence of its components: refs/remotes/origin/main is
\* <<"refs", "remotes", "origin", "main">>.
BranchNames == {"master", "main", "feature"}

Remotes == {"origin"}

RemoteRef(remote, branch) == <<"refs", "remotes", remote>> \o branch

\* str::strip_suffix and str::strip_prefix on names.
StripSuffix(name, suffix) ==
    IF /\ Len(suffix) <= Len(name)
       /\ SubSeq(name, Len(name) - Len(suffix) + 1, Len(name)) = suffix
    THEN Some(SubSeq(name, 1, Len(name) - Len(suffix)))
    ELSE NoneOpt

StripPrefix(name, prefix) ==
    IF /\ Len(prefix) <= Len(name)
       /\ SubSeq(name, 1, Len(prefix)) = prefix
    THEN Some(SubSeq(name, Len(prefix) + 1, Len(name)))
    ELSE NoneOpt

\* Delete::run, lines 56 to 60: the name of the remote, read off the name of
\* the upstream reference: what is left of it between "refs/remotes/" and
\* the name of the local branch.
RemoteName(upstream_name, branch) ==
    LET stripped == StripSuffix(upstream_name, <<branch>>)
    IN  IF stripped = NoneOpt THEN NoneOpt
        ELSE StripPrefix(stripped[1], <<"refs", "remotes">>)

\* Repository::find_remote, lines 62 to 64.
FindRemote(remote_name) ==
    Len(remote_name) = 1 /\ remote_name[1] \in Remotes

\* Delete::run, lines 67 to 80: the name the upstream is compared with.  When
\* refs/remotes/<remote>/HEAD does not exist the name is built as
\* "refs/remote/<remote>/master".
DefaultBranchName(remote_name, reference) ==
    CASE reference.kind = "symbolic" -> [ok |-> TRUE, name |-> reference.target]
      [] reference.kind = "direct" ->
            [ok |-> FALSE, name |-> <<"Invalid reference HEAD">>]
      [] reference.kind = "notfound" ->
            [ok |-> TRUE, name |-> <<"refs", "remote">> \o remote_name \o <<"master">>]
      [] OTHER -> [ok |-> FALSE, name |-> <<"UnableToFindCurrentBranch">>]

\* Git::get_default_branch: the target of refs/remotes/<remote>/HEAD without
\* "refs/remotes/", or <remote>/master when the reference does not exist.
GetDefaultBranch(remote, reference) ==
    CASE reference.kind = "symbolic" ->
            StripPrefix(reference.target, <<"refs", "remotes">>)
      [] reference.kind = "notfound" -> Some(<<remote, "master">>)
      [] OTHER -> NoneOpt

\* The states refs/remotes/origin/HEAD may be in: missing, a symbolic
\* reference to a remote-tracking branch, a direct reference, unreadable.
RemoteHeads ==
    {[kind |-> "notfound", target |-> <<>>],
     [kind |-> "symbolic", target |-> RemoteRef("origin", <<"master">>)],
     [kind |-> "symbolic", target |-> RemoteRef("origin", <<"main">>)],
     [kind |-> "direct", target |-> <<>>],
     [kind |-> "error", target |-> <<>>]}

\* The upstream a local branch may be configured with: none, the branch of
\* the same name on origin, origin's master, or origin's x/<name>.
Trackings(b) ==
    {NoneOpt, Some(RemoteRef("origin", <<b>>)),
     Some(RemoteRef("origin", <<"master">>)),
     Some(RemoteRef("origin", <<"x", b>>))}

\* git delete is not running.
NoDelete ==
    /\ branch_name = "feature"
    /\ local_branches = BranchNames
    /\ HEAD = "master"
    /\ tracking = [b \in BranchNames |-> NoneOpt]
    /\ remote_HEAD = [kind |-> "notfound", target |-> <<>>]
    /\ remote_branches = {<<b>> : b \in BranchNames}
    /\ delete_pc = "idle"
    /\ delete_error = "none"

InitRun ==
    /\ NoDelete
    /\ pc = "fetch"
    /\ squash_head = NoneOpt
    /\ preCommits = DOMAIN commits
    /\ handoff = <<>>
    /\ run = 1
    /\ earlier = <<>>
    /\ rev_list = <<>>
    /\ skipped = 0
    /\ last_failing_revision = NoneOpt
    /\ all_ignored_conflicts = {}
    /\ ignored_conflicts = <<>>
    /\ exit_code = NoneOpt
    /\ stdout = Silent
    /\ range = <<>>
    /\ preHead = head
    /\ attempts = <<>>

\* What a remote-tracking branch points to when the remote has moved on by one
\* commit since the last fetch.
Stale(n) == IF n <= 1 THEN Base ELSE Up(n - 1)

\* A clean repository n >= 1 revisions behind its target.
InitBehind ==
    \E n \in 1..MaxRevs, forked \in BOOLEAN :
        /\ forked => n >= 3
        /\ commits = InitialCommits(n, 0, forked)
        /\ head = Loc(0)
        /\ upstream = Up(n)
        /\ remote_branch = TRUE
        /\ target \in {Up(n), Stale(n)}
        /\ workTree = commits[head].tree
        /\ conflicts \in [{Up(i) : i \in 1..n} -> ConflictLists]
        /\ globs \in GlobSets
        /\ squashConfig = "unset"
        /\ squash \in BOOLEAN
        /\ squash => \A i \in 1..n : conflicts[Up(i)] = <<>>
        /\ no_merge \in BOOLEAN

\* One commit of the local line above Loc(0).  kind "auto": written by an
\* earlier run of the walk; "manual": committed by the `git merge` an earlier
\* run handed a revision to; "git": the user's own `git merge <commit id>`
\* with the message git proposes; "plain": an ordinary commit.  from: whether
\* the commit merges the next upstream commit or a commit of another branch
\* (an earlier run may have been given another revision).
Links ==
    {[kind |-> k, from |-> f] : k \in {"auto", "manual", "git"},
                                f \in {"up", "side"}}
        \cup {[kind |-> "plain", from |-> "none"],
              [kind |-> "squash", from |-> "up"]}

\* The local lines of at most MaxMarkers commits above Loc(0).
Lines == UNION {[1..m -> Links] : m \in 0..MaxMarkers}

\* How many of the first i commits of the line merge an upstream commit.
UpCount(line, i) == Cardinality({j \in 1..i : line[j].from = "up"})

TipOf(line) ==
    IF UpCount(line, Len(line)) = 0 THEN Base
    ELSE Up(UpCount(line, Len(line)))

\* The repository whose local line is `line`: it has merged all of the
\* upstream line.
LineCommits(line) ==
    LET m == Len(line)
        second(i) == IF line[i].from = "up" THEN Up(UpCount(line, i))
                     ELSE Side(i)
        message(i) ==
            CASE line[i].kind = "auto" -> NoConflictMessage(second(i))
              [] line[i].kind = "manual" -> ConflictsMessage(second(i))
              [] line[i].kind = "git" -> GitMergeMessage(second(i))
              [] line[i].kind = "squash" -> SquashMessage(second(i))
              [] OTHER -> UserMessage
        ids == {Base} \cup {Loc(i) : i \in 0..m}
                 \cup {Up(i) : i \in 1..UpCount(line, m)}
                 \cup {Side(i) : i \in {j \in 1..m : line[j].from = "side"}}
    IN  [c \in ids |->
            IF c = Base THEN Commit(<<>>, UserMessage, OrigTree(Base))
            ELSE IF c[1] = "up"
            THEN Commit(UpstreamParents(c[2], 0, FALSE), UserMessage, OrigTree(c))
            ELSE IF c[1] = "side" \/ c[2] = 0
            THEN Commit(<<Base>>, UserMessage, OrigTree(c))
            ELSE IF line[c[2]].from = "none"
            THEN Commit(<<Loc(c[2] - 1)>>, message(c[2]), OrigTree(c))
            ELSE Commit(<<Loc(c[2] - 1), second(c[2])>>, message(c[2]),
                        OrigTree(c))]

\* A clean repository that already merged all of its target.
InitCaughtUp ==
    \E line \in Lines :
        /\ commits = LineCommits(line)
        /\ head = Loc(Len(line))
        /\ upstream = TipOf(line)
        /\ remote_branch \in BOOLEAN
        /\ target = upstream
        /\ workTree = commits[head].tree
        /\ conflicts = <<>>
        /\ globs = {}
        /\ squashConfig \in {"unset", "true", "false"}
        /\ squash \in BOOLEAN
        /\ no_merge \in BOOLEAN

\* A repository with an uncommitted change.
InitDirty ==
    \E n \in 0..MaxRevs :
        /\ commits = InitialCommits(n, 0, FALSE)
        /\ head = Loc(0)
        /\ upstream = IF n = 0 THEN Base ELSE Up(n)
        /\ remote_branch \in BOOLEAN
        /\ target \in IF remote_branch THEN {upstream, Stale(n)} ELSE {upstream}
        /\ workTree = [commits[head].tree EXCEPT ![MainRs] = EditedBlob]
        /\ conflicts = [c \in {Up(i) : i \in 1..n} |-> <<>>]
        /\ globs \in GlobSets
        /\ squashConfig = "unset"
        /\ squash \in BOOLEAN
        /\ no_merge \in BOOLEAN

Init == (InitBehind \/ InitCaughtUp \/ InitDirty) /\ InitRun

\* The conflict lists drawn where runs follow one another.
RepeatConflictLists ==
    { <<>>,
      <<Conflict(CargoLock, TRUE)>>,
      <<Conflict(MainRs, TRUE)>> }

\* A clean repository whose local line merged the first m upstream commits in
\* m earlier runs and is n >= 0 revisions behind its target.
InitRepeat ==
    \E m \in 0..MaxMarkers, n \in 0..MaxRevs :
        /\ commits = InitialCommits(m + n, m, FALSE)
        /\ head = Loc(m)
        /\ upstream = (IF m + n = 0 THEN Base ELSE Up(m + n))
        /\ remote_branch = TRUE
        /\ target \in {upstream, Stale(m + n)}
        /\ workTree = commits[head].tree
        /\ conflicts \in [{Up(i) : i \in (m + 1)..(m + n)} -> RepeatConflictLists]
        /\ globs \in {{}, {GlobCargoLock}}
        /\ squashConfig = "unset"
        /\ squash \in BOOLEAN
        /\ no_merge \in BOOLEAN

\* A clean repository that merged all of its target: an earlier run squashed,
\* and later runs merged k upstream commits one by one on top of its result.
InitSquashed ==
    \E k \in 0..(MaxMarkers - 1) :
        LET line == [i \in 1..(k + 1) |->
                        IF i = 1 THEN [kind |-> "squash", from |-> "up"]
                        ELSE [kind |-> "auto", from |-> "up"]]
        IN  /\ commits = LineCommits(line)
            /\ head = Loc(k + 1)
            /\ upstream = TipOf(line)
            /\ remote_branch = TRUE
            /\ target = upstream
            /\ workTree = commits[head].tree
            /\ conflicts = <<>>
            /\ globs = {}
            /\ squashConfig = "unset"
            /\ squash \in BOOLEAN
            /\ no_merge \in BOOLEAN

InitRuns == (InitRepeat \/ InitSquashed \/ InitDirty) /\ InitRun

\* ----------------------------------------------------------------- actions

\* Whether Git::update_upstream is called: top_rev.contains('/').
Fetches(remote) == remote

\* TryMerge::run, lines 54 to 64: Git::update_upstream fetches the branch of
\* top_rev from its remote, which moves the remote-tracking branch to the
\* commit the remote has (the object database already holds the remote's
\* commits: ids are content addresses).  The fetch may fail.
UpdateUpstream ==
    /\ pc = "fetch"
    /\ IF Fetches(remote_branch)
       THEN \/ /\ target' = upstream
               /\ pc' = "start"
               /\ UNCHANGED exit_code
            \/ /\ pc' = "failed"
               /\ exit_code' = Some(FAILURE)
               /\ UNCHANGED target
       ELSE /\ pc' = "start"
            /\ UNCHANGED <<target, exit_code>>
    /\ UNCHANGED <<repo, settings, locals, stdout, range, preHead, attempts,
                   preCommits, handoff, runs>>

\* TryMerge::run, lines 66 to 97: the precondition gate, the revision list
\* and the setup of the walk.
Start ==
    /\ pc = "start"
    /\ IF HasFileChanges(commits, head, workTree)
       THEN /\ pc' = "failed"
            /\ exit_code' = Some(FAILURE)
            /\ UNCHANGED <<rev_list, range>>
       ELSE /\ \E list \in RevList(commits, head, target) :
                  /\ rev_list' = list
                  /\ range' = list
                  /\ pc' = IF list = <<>> THEN "empty" ELSE "walk"
            /\ UNCHANGED exit_code
    /\ UNCHANGED <<repo, inputs, skipped, last_failing_revision,
                   all_ignored_conflicts, ignored_conflicts, squash_head,
                   stdout, preHead, attempts, preCommits, handoff, runs>>

\* Mutant of GitSquash: the commit takes the tree of parent_0.
GitSquashTreeOfParent(cs, h, parent_0, parent_1, message) ==
    WriteCommit(cs, <<parent_0, parent_1>>, message, cs[parent_0].tree)

\* Git::squash: the branch is reset to parent_0, then one commit with the
\* tree of the old HEAD and the parents [parent_0, parent_1] is written on it.
GitSquash(cs, h, parent_0, parent_1, message) ==
    WriteCommit(cs, <<parent_0, parent_1>>, message, cs[h].tree)

\* TryMerge::run, lines 72 to 83: nothing to merge.  When squashing is asked
\* for and squash_all_merge_commits finds its base, Git::squash starts
\* (common.rs, lines 371 to 384): it reads HEAD and resets the branch to
\* parent_0.
EmptyRange ==
    /\ pc = "empty"
    /\ LET base == SquashBase(commits, head)
       IN  IF SquashRequested(squash, squashConfig) /\ base # NoneOpt
           THEN /\ squash_head' = Some(head)
                /\ head' = base[1]
                /\ pc' = "squash"
                /\ UNCHANGED <<stdout, exit_code>>
           ELSE /\ stdout' = [stdout EXCEPT !.final = "already up-to-date"]
                /\ pc' = "done"
                /\ exit_code' = Some(SUCCESS)
                /\ UNCHANGED <<head, squash_head>>
    /\ UNCHANGED <<commits, workTree, inputs, rev_list, skipped,
                   last_failing_revision, all_ignored_conflicts,
                   ignored_conflicts, range, preHead, attempts, preCommits,
                   handoff, runs>>

\* The end of Git::squash (common.rs, lines 386 to 399) and of the run (lines
\* 76 to 78): the commit on the branch that was reset.
SquashCommit ==
    /\ pc = "squash"
    /\ commits' = GitSquash(commits, squash_head[1], head, target,
                            SquashMessage(target))
    /\ head' = NewId(commits)
    /\ stdout' = [stdout EXCEPT !.final = "squashed"]
    /\ pc' = "done"
    /\ exit_code' = Some(SUCCESS)
    /\ UNCHANGED <<workTree, inputs, locals, range, preHead, attempts,
                   preCommits, handoff, runs>>

\* skipped += 1
Skip(n) == n + 1

\* Mutant of Failing: only the first failure is kept.
FailingKeepsFirst(last, revision) ==
    IF last = NoneOpt THEN Some(revision) ELSE last

\* last_failing_revision = Some(revision.clone())
Failing(last, revision) == Some(revision)

\* One iteration of the walk, lines 100 to 116, up to the commit made by
\* merge_no_conflict (common.rs, lines 248 to 304).
Attempt ==
    /\ pc = "walk"
    /\ rev_list # <<>>
    /\ LET popped == Pop(rev_list)
           revision == popped.revision
           res == MergeNoConflict(head, revision, globs, conflicts[revision])
       IN  /\ rev_list' = popped.rest
           /\ attempts' = Append(attempts, [revision |-> revision, kind |-> res.kind])
           /\ CASE res.kind = "some" ->
                    /\ commits' = WriteCommit(commits, res.parents,
                                      NoConflictMessage(revision), res.tree)
                    /\ head' = NewId(commits)
                    /\ ignored_conflicts' = res.ignored
                    /\ pc' = "checkout"
                    /\ UNCHANGED <<skipped, last_failing_revision, exit_code>>
                [] res.kind = "none" ->
                    /\ skipped' = Skip(skipped)
                    /\ last_failing_revision' = Failing(last_failing_revision, revision)
                    /\ UNCHANGED <<commits, head, ignored_conflicts, pc, exit_code>>
                [] res.kind = "err" ->
                    /\ pc' = "failed"
                    /\ exit_code' = Some(FAILURE)
                    /\ UNCHANGED <<commits, head, ignored_conflicts, skipped,
                                   last_failing_revision>>
    /\ UNCHANGED <<workTree, inputs, all_ignored_conflicts, squash_head,
                   stdout, range, preHead, preCommits, handoff, runs>>

\* Mutant of CheckoutHead: the files stay as they were before the merge.
CheckoutHeadKeepsFiles(cs, h) == cs[cs[h].parents[1]].tree

\* checkout_head with force (common.rs, lines 306 to 308): the working tree
\* and the index become the tree of HEAD.
CheckoutHead(cs, h) == cs[h].tree

\* Mutant of AfterMerge: the loop goes on after a merge (no `break`).
AfterMergeContinue == "walk"

\* `break`, line 112: where the run stands after the iteration that merged.
AfterMerge == "report"

\* The end of merge_no_conflict (common.rs, lines 306 to 312) and the end of
\* the iteration that merged (lines 106 to 112): the forced checkout of HEAD,
\* the success line, the ignored paths, break.
Checkout ==
    /\ pc = "checkout"
    /\ workTree' = CheckoutHead(commits, head)
    /\ stdout' = [stdout EXCEPT !.merged = Some(commits[head].parents[2])]
    /\ all_ignored_conflicts' =
           all_ignored_conflicts \cup
               {ignored_conflicts[i] : i \in 1..Len(ignored_conflicts)}
    /\ pc' = AfterMerge
    /\ UNCHANGED <<commits, head, inputs, rev_list, skipped,
                   last_failing_revision, ignored_conflicts, squash_head,
                   exit_code, range, preHead, attempts, preCommits, handoff,
                   runs>>

\* `while let Some(revision) = rev_list.pop()` finds the list empty.
WalkEnd ==
    /\ pc = "walk"
    /\ rev_list = <<>>
    /\ pc' = "report"
    /\ UNCHANGED <<repo, inputs, locals, exit_code, stdout, range, preHead,
                   attempts, preCommits, handoff, runs>>

\* Mutant of Ending: --no-merge is not consulted.
EndingWithoutFlag(noMerge, last) ==
    IF last # NoneOpt THEN "merge" ELSE "done"

\* Lines 126 to 154: where the run goes after the report: it returns, or it
\* hands the last failing revision to `git merge`.
Ending(noMerge, last) ==
    IF noMerge THEN "done"
    ELSE IF last # NoneOpt THEN "merge"
    ELSE "done"

\* TryMerge::run, lines 119 to 155: the report, and the choice of the ending.
Report ==
    /\ pc = "report"
    /\ pc' = Ending(no_merge, last_failing_revision)
    /\ IF no_merge
       THEN /\ stdout' = [stdout EXCEPT !.ignored = all_ignored_conflicts]
            /\ exit_code' = Some(SUCCESS)
       ELSE IF last_failing_revision # NoneOpt
       THEN /\ stdout' = [stdout EXCEPT !.ignored = all_ignored_conflicts,
                                        !.behind = Some(skipped),
                                        !.failing = last_failing_revision]
            /\ UNCHANGED exit_code
       ELSE /\ stdout' = [stdout EXCEPT !.ignored = all_ignored_conflicts,
                                        !.final = "nothing more to merge"]
            /\ exit_code' = Some(SUCCESS)
    /\ UNCHANGED <<repo, inputs, locals, range, preHead, attempts, preCommits,
                   handoff, runs>>

\* The ways the `git merge` child may end (ExitStatus::code()): with exit code
\* 0, with exit code 1, or killed by a signal, which leaves it no exit code.
ExitStatuses == {Some(SUCCESS), Some(FAILURE), NoneOpt}

\* Mutant of ExitCode: the status of the child is dropped.
ExitCodeDropped(status) == SUCCESS

\* .code().unwrap_or(SUCCESS), lines 148 to 149.
ExitCode(status) == IF status = NoneOpt THEN SUCCESS ELSE status[1]

\* `git merge --no-ff <revision> -m "Merge commit <revision> (conflicts)"`,
\* lines 135 to 149.  git commits the merge when nothing conflicts with the
\* new HEAD and exits with 0; it leaves the conflicts in the working tree
\* and exits with 1; or it is killed by a signal, with the working tree as
\* it was or already rewritten.
ManualMerge ==
    /\ pc = "merge"
    /\ \E status \in ExitStatuses :
         LET revision == last_failing_revision[1]
             merged == [p \in Paths |-> MergedBlob(head, revision)]
             marked == [workTree EXCEPT ![MainRs] = MarkedBlob(revision)]
         IN  /\ handoff' = Append(handoff,
                                 [revision |-> revision,
                                  message |-> ConflictsMessage(revision),
                                  seen |-> DOMAIN commits,
                                  status |-> status])
             /\ exit_code' = Some(ExitCode(status))
             /\ IF status = Some(SUCCESS)
                THEN /\ commits' = WriteCommit(commits, <<head, revision>>,
                                       ConflictsMessage(revision), merged)
                     /\ head' = NewId(commits)
                     /\ workTree' = merged
                ELSE /\ workTree' \in IF status = NoneOpt
                                      THEN {workTree, marked}
                                      ELSE {marked}
                     /\ UNCHANGED <<commits, head>>
    /\ pc' = "done"
    /\ UNCHANGED <<inputs, locals, stdout, range, preHead, attempts,
                   preCommits, runs>>

Next ==
    \/ UpdateUpstream
    \/ Start
    \/ EmptyRange
    \/ SquashCommit
    \/ Attempt
    \/ Checkout
    \/ WalkEnd
    \/ Report
    \/ ManualMerge

Spec == Init /\ [][Next]_vars

\* One run that is never suspended for ever: the process is scheduled, and
\* each call it waits for (the fetch, the `git merge` child) returns.
SpecFair == Init /\ [][Next]_vars /\ WF_vars(Next)

\* ------------------------------------------------- runs one after the other

\* The process is over: it returned, failed, or was killed.
Over == pc \in {"done", "failed", "killed"}

\* The process is killed (SIGKILL, power loss) between two steps.  Nothing of
\* the run is undone: there is no cleanup and no lock.
Kill ==
    /\ ~Over
    /\ pc' = "killed"
    /\ UNCHANGED <<repo, inputs, locals, exit_code, stdout, range, preHead,
                   attempts, preCommits, handoff, runs>>

\* What the next run is told about the run that is over.
Summary ==
    [pc |-> pc, at |-> IF pc = "killed" THEN "killed" ELSE stdout.final,
     blocked |-> last_failing_revision # NoneOpt, exit_code |-> exit_code]

\* The program is started again, with the same command line, on the
\* repository as the last run left it: main and TryMerge::run from the top
\* (lines 43 to 54, 97 to 99).
Rerun ==
    /\ Over
    /\ run < MaxRuns
    /\ run' = run + 1
    /\ earlier' = Append(earlier, Summary)
    /\ pc' = "fetch"
    /\ rev_list' = <<>>
    /\ skipped' = 0
    /\ last_failing_revision' = NoneOpt
    /\ all_ignored_conflicts' = {}
    /\ ignored_conflicts' = <<>>
    /\ squash_head' = NoneOpt
    /\ exit_code' = NoneOpt
    /\ stdout' = Silent
    /\ range' = <<>>
    /\ preHead' = head
    /\ attempts' = <<>>
    /\ preCommits' = DOMAIN commits
    /\ handoff' = <<>>
    /\ UNCHANGED <<repo, inputs>>

NextRuns ==
    \/ UpdateUpstream
    \/ Start
    \/ EmptyRange
    \/ SquashCommit
    \/ Attempt
    \/ Checkout
    \/ WalkEnd
    \/ Report
    \/ ManualMerge
    \/ Kill
    \/ Rerun

SpecRuns == InitRuns /\ [][NextRuns]_vars

\* --------------------------------------------------------------- git delete

\* git try-merge is not running: the repository is at rest.
NoTryMerge ==
    /\ commits = InitialCommits(0, 0, FALSE)
    /\ head = Loc(0)
    /\ workTree = commits[head].tree
    /\ target = Base
    /\ upstream = Base
    /\ remote_branch = FALSE
    /\ conflicts = <<>>
    /\ globs = {}
    /\ squashConfig = "unset"
    /\ squash = FALSE
    /\ no_merge = FALSE
    /\ pc = "done"
    /\ squash_head = NoneOpt
    /\ preCommits = DOMAIN commits
    /\ handoff = <<>>
    /\ run = 1
    /\ earlier = <<>>
    /\ rev_list = <<>>
    /\ skipped = 0
    /\ last_failing_revision = NoneOpt
    /\ all_ignored_conflicts = {}
    /\ ignored_conflicts = <<>>
    /\ exit_code = NoneOpt
    /\ stdout = Silent
    /\ range = <<>>
    /\ preHead = head
    /\ attempts = <<>>

\* `git delete <branch_name>` starts.
InitDelete ==
    /\ NoTryMerge
    /\ branch_name \in BranchNames \cup {"gone"}
    /\ local_branches = BranchNames
    /\ HEAD \in BranchNames
    /\ tracking \in {f \in [BranchNames -> UNION {Trackings(b) : b \in BranchNames}] :
                        \A b \in BranchNames : f[b] \in Trackings(b)}
    /\ remote_HEAD \in RemoteHeads
    /\ remote_branches = {<<b>> : b \in BranchNames}
    /\ delete_pc = "start"
    /\ delete_error = "none"

tryMerge == <<repo, target, conflicts, globs, squashConfig, squash, no_merge,
              upstream, remote_branch, pc, locals, exit_code, stdout, range,
              preHead, attempts, preCommits, handoff, runs>>

\* Delete::run, lines 37 to 84: the branch is looked up; the branch HEAD
\* points to is refused; without an upstream the run goes to the deletion of
\* the local branch; with one, the remote is found and the upstream is
\* compared with the name of the default branch.
DeleteGuards ==
    /\ delete_pc = "start"
    /\ LET fail(e) == delete_pc' = "failed" /\ delete_error' = e
           goes(p) == delete_pc' = p /\ delete_error' = delete_error
       IN  IF branch_name \notin local_branches
           THEN fail("Could not find local branch")
           ELSE IF branch_name = HEAD
           THEN fail("DeletingCurrentHead")
           ELSE IF tracking[branch_name] = NoneOpt
           THEN goes("local")
           ELSE LET upstream_name == tracking[branch_name][1]
                    remote_name == RemoteName(upstream_name, branch_name)
                IN  IF remote_name = NoneOpt
                    THEN fail("Could not find remote name")
                    ELSE IF ~FindRemote(remote_name[1])
                    THEN fail("Could not find remote")
                    ELSE LET default_branch_name ==
                                 DefaultBranchName(remote_name[1], remote_HEAD)
                         IN  IF ~default_branch_name.ok
                             THEN fail(default_branch_name.name[1])
                             ELSE IF upstream_name = default_branch_name.name
                             THEN fail("DeletingDefaultBranch")
                             ELSE goes("push")
    /\ UNCHANGED <<tryMerge, branch_name, local_branches, HEAD, tracking,
                   remote_HEAD, remote_branches>>

\* The ways Remote::push may end: the remote deleted the branch; the remote
\* refused the update, which push reports to the push_update_reference
\* callback only (none is set) and returns Ok; or the push failed.
PushOutcomes == {"deleted", "rejected", "error"}

\* Delete::run, lines 86 to 103: the push of "+:refs/heads/<branch_name>".
DeletePush ==
    /\ delete_pc = "push"
    /\ \E outcome \in PushOutcomes :
         CASE outcome = "deleted" ->
                /\ remote_branches' = remote_branches \ {<<branch_name>>}
                /\ delete_pc' = "local"
                /\ UNCHANGED delete_error
           [] outcome = "rejected" ->
                /\ delete_pc' = "local"
                /\ UNCHANGED <<remote_branches, delete_error>>
           [] outcome = "error" ->
                /\ delete_pc' = "failed"
                /\ delete_error' = "push"
                /\ UNCHANGED remote_branches
    /\ UNCHANGED <<tryMerge, branch_name, local_branches, HEAD, tracking,
                   remote_HEAD>>

\* Delete::run, lines 106 to 109: branch.delete().
DeleteBranch ==
    /\ delete_pc = "local"
    /\ local_branches' = local_branches \ {branch_name}
    /\ delete_pc' = "done"
    /\ UNCHANGED <<tryMerge, branch_name, HEAD, tracking, remote_HEAD,
                   remote_branches, delete_error>>

NextDelete ==
    \/ DeleteGuards
    \/ DeletePush
    \/ DeleteBranch

SpecDelete == InitDelete /\ [][NextDelete]_vars

\* ------------------------------------------------------------------ claims

\* The walk is about to pop a revision and attempt its merge.
Attempting == pc = "walk" /\ rev_list # <<>>

\* The revision the next attempt pops, and the conflicts of merging it.
Upcoming == Pop(rev_list).revision

UpcomingConflicts == conflicts[Upcoming]

\* cl[i] is a conflict whose (UTF-8) path no ignore glob matches.
Unmatched(cl, i) == cl[i].path.utf8 /\ Matches(globs, cl[i].path) = {}

\* Some conflict of cl is not covered by the ignore globs.
HasVeto(cl) == \E i \in 1..Len(cl) : Unmatched(cl, i)

\* A path that is not UTF-8 is listed before every uncovered conflict and
\* before every conflict without a "their" entry: the loop meets it first.
EncodingFirst(cl) ==
    \E i \in 1..Len(cl) :
        /\ ~cl[i].path.utf8
        /\ \A j \in 1..(i - 1) : cl[j].their /\ ~Unmatched(cl, j)

\* The attempt leaves the repository as it was.
RepoUntouched == commits' = commits /\ head' = head /\ workTree' = workTree

\* The commits this run added to the local line.
Written == DOMAIN commits \ preCommits

\* Those of them the walk wrote itself.
AutoCommits == {c \in Written : commits[c].message.tail = "(no conflict)"}

\* The position of a revision in the range the walk started with.
RangeIndex(r) == CHOOSE i \in 1..Len(range) : range[i] = r

RangeSet == {range[i] : i \in 1..Len(range)}

\* C1 (as claimed): whenever a merge attempt has a conflicting path that no
\* ignore glob matches, the attempt creates no commit, leaves HEAD and the
\* working tree unchanged, and the walk is Blocked on that revision (it
\* becomes the failing revision).
C1_VetoAlwaysBlocks ==
    [][Attempting /\ HasVeto(UpcomingConflicts)
        => /\ RepoUntouched
           /\ last_failing_revision' = Some(Upcoming)]_vars

\* C1 (amended): whenever a merge attempt has a conflicting path that no
\* ignore glob matches, the attempt creates no commit and leaves HEAD and the
\* working tree unchanged; the walk is Blocked on exactly that revision (it
\* becomes the failing revision, skipped grows by one) unless a path that is
\* not UTF-8 is met first, in which case the run fails.
C1_VetoTotality ==
    [][Attempting /\ HasVeto(UpcomingConflicts)
        => /\ RepoUntouched
           /\ IF EncodingFirst(UpcomingConflicts)
              THEN /\ pc' = "failed"
                   /\ last_failing_revision' = last_failing_revision
              ELSE /\ pc' = "walk"
                   /\ last_failing_revision' = Some(Upcoming)
                   /\ skipped' = skipped + 1]_vars

\* C1 witness: an attempt re-staged Cargo.lock, was then vetoed by main.rs,
\* and its revision is the failing revision.
C1_Witness ==
    /\ globs = {GlobCargoLock}
    /\ attempts # <<>>
    /\ LET a == attempts[Len(attempts)]
       IN  /\ a.kind = "none"
           /\ conflicts[a.revision] =
                  <<Conflict(CargoLock, TRUE), Conflict(MainRs, TRUE)>>
           /\ last_failing_revision = Some(a.revision)
           /\ head = preHead

\* C2 (as claimed): the walk attempts the revisions oldest first: the i-th
\* attempt is on the i-th oldest revision of the range.
C2_OldestFirst ==
    \A i \in 1..Len(attempts) : attempts[i].revision = range[i]

\* C2 (amended): the walk attempts the revisions newest first: the i-th
\* attempt is on the i-th newest revision of the range (the first one on the
\* target), and it is made only after every newer revision was attempted and
\* found Blocked; the walk never reorders the range or skips a revision.
C2_NewestFirst ==
    \A i \in 1..Len(attempts) :
        /\ attempts[i].revision = range[Len(range) + 1 - i]
        /\ \A j \in 1..(i - 1) : attempts[j].kind = "none"

\* C2 witness: a range of three revisions, the two newest attempted.
C2_Witness ==
    /\ Len(range) = 3
    /\ Len(attempts) = 2
    /\ attempts[1].revision = target

\* The walk is over: it left the loop, emptied the queue or wrote its commit.
WalkOver ==
    \/ pc # "walk"
    \/ rev_list = <<>>
    \/ \E i \in 1..Len(attempts) : attempts[i].kind = "some"

\* C3 (as claimed): once an attempt was Blocked no further merge attempt is
\* made and no automatic merge commit is written.
C3_BlockedIsTerminal ==
    [][last_failing_revision # NoneOpt
        => attempts' = attempts /\ AutoCommits' = AutoCommits]_vars

\* C3 (amended): a Blocked attempt ends the walk only when no older revision
\* is pending; otherwise the walk goes on with the next older revision.  Once
\* the walk is over (the queue is empty or a merge commit was written) no
\* further merge attempt is made and no automatic merge commit is written.
C3_WalkOverIsTerminal ==
    [][last_failing_revision # NoneOpt /\ WalkOver
        => attempts' = attempts /\ AutoCommits' = AutoCommits]_vars

\* C3 witness: the run ended after a Blocked attempt that was followed by a
\* successful one.
C3_Witness ==
    /\ pc = "done"
    /\ last_failing_revision # NoneOpt
    /\ Len(attempts) >= 2
    /\ attempts[Len(attempts)].kind = "some"

\* Every revision of the range has a single parent.
LinearRange == \A r \in RangeSet : Len(commits[r].parents) = 1

\* The revisions of the range that HEAD reaches.
InHead == RangeSet \cap Ancestry(commits, head)

Attempted == {attempts[i].revision : i \in 1..Len(attempts)}

\* The walk merged a revision (it was its last attempt).
Merged == attempts # <<>> /\ attempts[Len(attempts)].kind = "some"

\* The position in the range of the revision of the last attempt.
LastIndex == Len(range) + 1 - Len(attempts)

\* C4 (as claimed): after the walk, HEAD's ancestry holds exactly a prefix
\* r1..rk of the range, and no revision beyond r(k+1) was passed to a merge
\* attempt.
C4_PrefixProperty ==
    pc = "report" =>
        \E k \in 0..Len(range) :
            /\ \A j \in 1..Len(range) : range[j] \in InHead <=> j <= k
            /\ \A r \in Attempted : RangeIndex(r) <= k + 1

\* C4 (amended): after the walk, HEAD's ancestry holds, of the range, exactly
\* the merged revision rk and the revisions of the range rk reaches (for a
\* linear range: exactly the prefix r1..rk), or none of the range when no
\* revision merged; the revisions passed to a merge attempt are exactly
\* rn, .., rk (the whole range when none merged): every revision newer than
\* rk was attempted and Blocked, none older than rk was attempted.
C4_MergedAncestry ==
    pc = "report" =>
        IF Merged
        THEN /\ InHead = RangeSet \cap Ancestry(commits, range[LastIndex])
             /\ LinearRange => InHead = {range[j] : j \in 1..LastIndex}
             /\ Attempted = {range[j] : j \in LastIndex..Len(range)}
             /\ \A i \in 1..(Len(attempts) - 1) : attempts[i].kind = "none"
        ELSE /\ InHead = {}
             /\ Attempted = RangeSet

\* C4 witness: of a forked range of three, the newest revision was Blocked
\* and the second merged; the oldest is not in HEAD's ancestry.
C4_Witness ==
    /\ pc = "report"
    /\ Len(range) = 3
    /\ ~LinearRange
    /\ Merged
    /\ Len(attempts) = 2
    /\ range[1] \notin InHead

\* C5 (as claimed): for a range of n >= 1 revisions none of which conflicts,
\* the walk writes exactly n commits and ends with skipped = 0, exit code 0.
C5_OneCommitPerRevision ==
    (/\ pc = "done"
     /\ range # <<>>
     /\ \A r \in RangeSet : conflicts[r] = <<>>)
        => /\ Cardinality(AutoCommits) = Len(range)
           /\ skipped = 0
           /\ exit_code = Some(SUCCESS)

\* C5 (amended): for a range of n >= 1 revisions whose newest one (the
\* target) does not conflict, the walk writes exactly one commit: it merges
\* rn with the message "Merge commit <rn> (no conflict)", its parents are the
\* pre-run HEAD and rn, and it brings the n revisions into HEAD's ancestry;
\* the walk ends Completed with skipped = 0 and exit code 0.
C5_OneCommitForTheRange ==
    (/\ pc = "done"
     /\ range # <<>>
     /\ conflicts[range[Len(range)]] = <<>>)
        => /\ Written = {head}
           /\ AutoCommits = {head}
           /\ commits[head].message = NoConflictMessage(range[Len(range)])
           /\ commits[head].message.rev = target
           /\ commits[head].parents = <<preHead, range[Len(range)]>>
           /\ RangeSet \subseteq Ancestry(commits, head)
           /\ skipped = 0
           /\ last_failing_revision = NoneOpt
           /\ exit_code = Some(SUCCESS)

\* C5 witness: Scenario A, three revisions without conflict, one commit.
C5_Witness ==
    /\ pc = "done"
    /\ Len(range) = 3
    /\ \A r \in RangeSet : conflicts[r] = <<>>
    /\ Cardinality(AutoCommits) = 1

\* The commits of the first-parent chain that starts at c.
FirstParentChain(c) ==
    LET chain == Ancestors(commits, c)
    IN  {chain[i] : i \in 1..Len(chain)}

\* C6: a commit written by the walk has exactly two parents, first the commit
\* HEAD pointed to just before the write, second the revision just merged,
\* and HEAD then points to the new commit; so the pre-run HEAD stays a
\* first-parent ancestor of HEAD throughout a walk.
C6_TwoParents ==
    /\ [][Attempting /\ commits' # commits
            => /\ DOMAIN commits' = DOMAIN commits \cup {head'}
               /\ head' \notin DOMAIN commits
               /\ commits'[head'].parents = <<head, Upcoming>>
               /\ \A c \in DOMAIN commits : commits'[c] = commits[c]]_vars
    /\ [](range # <<>> => preHead \in FirstParentChain(head))

\* C6 witness: after a Blocked attempt the walk wrote a commit on top of the
\* pre-run HEAD.
C6_Witness ==
    /\ pc = "report"
    /\ Len(attempts) >= 2
    /\ Merged
    /\ head # preHead
    /\ commits[head].parents = <<preHead, attempts[Len(attempts)].revision>>

\* Every conflict of cl can be auto-resolved: it has a "their" entry and its
\* path is UTF-8 and matched by an ignore glob.
AllIgnorable(cl) ==
    /\ cl # <<>>
    /\ \A i \in 1..Len(cl) :
          /\ cl[i].their
          /\ cl[i].path.utf8
          /\ Matches(globs, cl[i].path) # {}

\* C7: when every conflicting path of an attempt matches the ignore globs,
\* the attempt commits a tree that holds the upstream (their) version at each
\* conflicting path and, at every other path, the content the merge
\* computation produced.
C7_AutoResolutionFrame ==
    [][Attempting /\ AllIgnorable(UpcomingConflicts)
        => /\ head' \notin DOMAIN commits
           /\ head' \in DOMAIN commits'
           /\ \A p \in Paths :
                 commits'[head'].tree[p] =
                     IF p \in ConflictPaths(UpcomingConflicts)
                     THEN TheirBlob(Upcoming)
                     ELSE MergedBlob(head, Upcoming)]_vars

\* C7 where the only conflicting path is Cargo.lock (it holds there: the path
\* merge_no_conflict removes from the index is then the conflicting one).
C7_CargoLockOnly ==
    [][(/\ Attempting
        /\ AllIgnorable(UpcomingConflicts)
        /\ ConflictPaths(UpcomingConflicts) = {CargoLock})
        => /\ head' \notin DOMAIN commits
           /\ head' \in DOMAIN commits'
           /\ \A p \in Paths :
                 commits'[head'].tree[p] =
                     IF p = CargoLock
                     THEN TheirBlob(Upcoming)
                     ELSE MergedBlob(head, Upcoming)]_vars

\* The oldest revision of the range that HEAD does not reach.
OldestUnmerged ==
    range[CHOOSE j \in 1..Len(range) :
              /\ range[j] \notin InHead
              /\ \A i \in 1..(j - 1) : range[i] \in InHead]

\* C8 (as claimed): the failing revision reported when the walk ends Blocked
\* is the oldest revision of the range that is not in HEAD's ancestry.
C8_FailingIsOldestUnmerged ==
    pc = "merge" => stdout.failing = Some(OldestUnmerged)

\* The position in the range of the merged revision, 0 when none merged.
MergedIndex == IF Merged THEN LastIndex ELSE 0

\* C8 (amended): the failing revision reported (and handed to manual
\* resolution) when the walk ends Blocked is the revision that follows the
\* merged one in the range (the oldest revision of the range when none
\* merged): it is not in HEAD's ancestry, it is the oldest revision that was
\* attempted and is not in HEAD's ancestry, and for a linear range it is the
\* oldest revision of the range not in HEAD's ancestry.  If the attempt on the
\* oldest revision is Blocked the run created no commit and the failing
\* revision is that oldest revision.
C8_FailingFollowsMerged ==
    /\ pc = "merge" =>
          /\ stdout.failing = Some(range[MergedIndex + 1])
          /\ range[MergedIndex + 1] \notin InHead
          /\ \A r \in Attempted \ InHead : RangeIndex(r) >= MergedIndex + 1
          /\ LinearRange => stdout.failing = Some(OldestUnmerged)
          /\ ~Merged => Written = {} /\ stdout.failing = Some(range[1])
    /\ handoff # <<>> => Some(handoff[1].revision) = stdout.failing

\* C8 witness: Scenario C, two revisions, both Blocked: no commit, and the
\* failing revision is the oldest one.
C8_Witness ==
    /\ pc = "merge"
    /\ Len(range) = 2
    /\ ~Merged
    /\ Written = {}
    /\ stdout.failing = Some(range[1])

\* C9: the count printed as "still behind by N commit(s)" when the walk ends
\* Blocked is the number of revisions between the new HEAD and the target.
C9_BehindCount ==
    pc = "merge" =>
        stdout.behind = Some(Cardinality(RevRange(commits, head, target)))

\* C9 for linear ranges only (it holds there).
C9_BehindCountLinear ==
    pc = "merge" /\ LinearRange =>
        stdout.behind = Some(Cardinality(RevRange(commits, head, target)))

\* The paths auto-resolved in the commits the walk wrote: the conflicting
\* paths of the attempts that ended in a commit.
AutoResolved ==
    UNION {ConflictPaths(conflicts[commits[c].parents[2]]) : c \in AutoCommits}

\* The run is over.
Ended == pc \in {"done", "failed"}

\* C10, the general part: the ignored paths a run reports are exactly the
\* paths auto-resolved in the commits it wrote.
C10_ReportedEqualsResolved ==
    /\ pc \in {"merge", "done"} /\ range # <<>> => stdout.ignored = AutoResolved
    /\ pc \notin {"merge", "done"} => stdout.ignored = {}

\* Scenario B: of two revisions the older does not conflict and the newer
\* conflicts only on one path, which an ignore glob matches.
ScenarioB ==
    /\ Len(range) = 2
    /\ conflicts[range[1]] = <<>>
    /\ Len(conflicts[range[2]]) = 1
    /\ AllIgnorable(conflicts[range[2]])

\* C10: the reported ignored paths are exactly the paths auto-resolved in the
\* commits the run wrote; in Scenario B the run reports exactly the one
\* ignored path, both revisions are in HEAD's ancestry and the exit code is 0.
C10_IgnoredSoFar ==
    /\ C10_ReportedEqualsResolved
    /\ Ended /\ ScenarioB =>
          /\ stdout.ignored = ConflictPaths(conflicts[range[2]])
          /\ RangeSet \subseteq Ancestry(commits, head)
          /\ exit_code = Some(SUCCESS)

\* ------------------------------------------------------------ C11 .. C20

\* The run returned from TryMerge::run with Ok.
Returned == pc = "done"

\* The walk ended Blocked: the run has a failing revision.
EndedBlocked == last_failing_revision # NoneOpt

\* What C11 says whatever the exit status of the step is: at most one
\* invocation, only without --no-merge and on the failing revision, with the
\* "(conflicts)" message, after every automatic commit of the run; it is made
\* when the run returns Blocked without --no-merge, and never when the walk
\* was Completed or the range was empty, where the exit code is 0.
HandoffShape ==
    /\ Len(handoff) <= 1
    /\ handoff # <<>> =>
          /\ ~no_merge
          /\ last_failing_revision = Some(handoff[1].revision)
          /\ handoff[1].message = FormatMerge(handoff[1].revision, "(conflicts)")
          /\ AutoCommits \subseteq handoff[1].seen
          /\ Returned
    /\ Returned /\ EndedBlocked /\ ~no_merge => Len(handoff) = 1
    /\ Returned /\ ~EndedBlocked => handoff = <<>> /\ exit_code = Some(SUCCESS)

\* C11 (as claimed): when the walk ends Blocked and --no-merge is not given,
\* `git merge` is invoked exactly once, on the failing revision, with the
\* "(conflicts)" message, after every automatic commit, and the exit code of
\* the process is the exit code of that step; when the walk is Completed or
\* the range was empty the step is never invoked and the exit code is 0.
C11_ExitCodeOfTheStep ==
    /\ HandoffShape
    /\ handoff # <<>> => exit_code = handoff[1].status

\* C11 (amended): as above, but the exit code of the process is the exit code
\* of the step only when the step ended with one: when the step was killed by
\* a signal the process exits with 0.
C11_Handoff ==
    /\ HandoffShape
    /\ handoff # <<>> =>
          exit_code = IF handoff[1].status = NoneOpt
                      THEN Some(SUCCESS)
                      ELSE handoff[1].status

\* C11 witness: the newest revision was Blocked, an older one was merged, and
\* the step that was handed the failing revision exited with 1, as did the
\* process.
C11_Witness ==
    /\ Returned
    /\ AutoCommits # {}
    /\ Len(handoff) = 1
    /\ handoff[1].revision = target
    /\ handoff[1].status = Some(FAILURE)
    /\ exit_code = Some(FAILURE)

\* The repository the walk leaves when it starts from the commits cs with
\* HEAD at h and the revision list `list`: computed from the conflicts and
\* the ignore globs alone, whatever --no-merge is.
RECURSIVE AutomaticPart(_, _, _)
AutomaticPart(cs, h, list) ==
    IF list = <<>>
    THEN [commits |-> cs, head |-> h]
    ELSE LET revision == list[Len(list)]
             res == MergeNoConflict(h, revision, globs, conflicts[revision])
         IN  CASE res.kind = "some" ->
                    [commits |-> WriteCommit(cs, res.parents,
                                     FormatMerge(revision, "(no conflict)"),
                                     res.tree),
                     head |-> NewId(cs)]
               [] res.kind = "none" ->
                    AutomaticPart(cs, h, SubSeq(list, 1, Len(list) - 1))
               [] OTHER -> [commits |-> cs, head |-> h]

\* The repository as it was when the run started.
CommitsBefore == [c \in preCommits |-> commits[c]]

\* The automatic part of the run is over and nothing was handed over yet.
AutomaticPartOver ==
    \/ pc \in {"report", "merge"}
    \/ Returned /\ range # <<>> /\ handoff = <<>>

\* C12: the automatic part of a run (the merge commits it writes, the HEAD
\* and the working tree it ends with) is the same with and without
\* --no-merge; with --no-merge `git merge` is never invoked and the run that
\* returns exits with 0, also when a revision was Blocked.
C12_NoMergeFrame ==
    /\ AutomaticPartOver =>
          /\ commits = AutomaticPart(CommitsBefore, preHead, range).commits
          /\ head = AutomaticPart(CommitsBefore, preHead, range).head
          /\ workTree = commits[head].tree
    /\ no_merge =>
          /\ pc # "merge"
          /\ handoff = <<>>
          /\ Returned => exit_code = Some(SUCCESS)

\* C12 witness: with --no-merge the newest revision was Blocked, an older one
\* was merged, and the run returned with exit code 0.
C12_Witness ==
    /\ no_merge
    /\ Returned
    /\ EndedBlocked
    /\ AutoCommits # {}
    /\ head # preHead
    /\ exit_code = Some(SUCCESS)

\* The run has not passed the precondition gate and the working tree has
\* uncommitted changes.
DirtyStart ==
    /\ pc \in {"fetch", "start"}
    /\ HasFileChanges(commits, head, workTree)

\* C13: a run that starts on a working tree with uncommitted changes fails
\* before any write: every step it takes leaves the commits, HEAD, the
\* working tree and the remote-tracking branch of the target as they were,
\* and it ends with a non-zero exit code.
C13_GateBeforeAnyWrite ==
    [][DirtyStart
        => /\ UNCHANGED <<commits, head, workTree, target>>
           /\ pc' \in {"start", "failed"}
           /\ pc' = "failed" => exit_code' = Some(FAILURE)]_vars

\* C13 without the remote-tracking branch (this much holds): the run creates
\* no commit, leaves HEAD and the working tree as they were, and fails.
C13_GateKeepsLocalState ==
    [][DirtyStart
        => /\ UNCHANGED <<commits, head, workTree>>
           /\ pc' \in {"start", "failed"}
           /\ pc' = "failed" => exit_code' = Some(FAILURE)]_vars

\* The message of the commit starts with the generated marker text.
CarriesMarker(c) ==
    /\ Len(commits[c].message.words) >= 2
    /\ commits[c].message.words[1] = "Merge"
    /\ commits[c].message.words[2] = "commit"

\* The number of consecutive marker commits the first-parent chain of c
\* starts with.
MarkerRunLength(c) ==
    LET chain == Ancestors(commits, c)
    IN  Cardinality({k \in 1..Len(chain) :
                        \A j \in 1..k : CarriesMarker(chain[j])})

\* The marker commits the first-parent chain of c starts with.
MarkerRun(c) ==
    LET chain == Ancestors(commits, c)
    IN  {chain[k] : k \in 1..MarkerRunLength(c)}

\* The first parent of the oldest commit of that run.
BaseOfRun(c) ==
    commits[Ancestors(commits, c)[MarkerRunLength(c)]].parents[1]

\* The run squashed: it returned after "Your merge commits have been
\* squashed".
Squashed == Returned /\ stdout.final = "squashed"

\* C14: when the first-parent chain of HEAD starts with n >= 2 marker commits
\* and the squash runs, exactly one commit is created; its tree is the tree
\* of the HEAD before the squash; its parents are [base, top], base the first
\* parent of the oldest marker commit of the run and top the upstream target;
\* and HEAD ends on the new commit.
C14_SquashInvariant ==
    /\ pc = "squash" => Written = {}
    /\ Squashed =>
          /\ MarkerRunLength(preHead) >= 2
          /\ Written = {head}
          /\ commits[head].tree = commits[preHead].tree
          /\ commits[head].parents = <<BaseOfRun(preHead), target>>

\* C14 witness: two marker commits above an ordinary commit of the local line
\* were squashed onto that commit.
C14_Witness ==
    /\ Squashed
    /\ MarkerRunLength(preHead) = 2
    /\ BaseOfRun(preHead) = Loc(1)
    /\ preHead = Loc(3)
    /\ head \notin preCommits

\* The commits a squash folded: those of the first-parent chain of the old
\* HEAD that are above the first parent of the squash commit.
Folded ==
    FirstParentChain(preHead) \ FirstParentChain(commits[head].parents[1])

\* A merge the user made with `git merge <commit id>` and the message git
\* proposes for it.
UserAuthoredMerge(c) ==
    /\ Len(commits[c].parents) = 2
    /\ commits[c].message.tail = "'quoted'"

\* C15, first part (it holds): the squash folds exactly the maximal run of
\* commits, contiguous by first parent from HEAD, whose message starts with
\* the marker text; it ends at the first ancestor without it, and no commit at
\* or below that ancestor is folded.
C15_FoldsMarkerRun ==
    Squashed =>
        /\ Folded = MarkerRun(preHead)
        /\ \A c \in Folded : CarriesMarker(c)
        /\ ~CarriesMarker(commits[head].parents[1])
        /\ FirstParentChain(commits[head].parents[1]) \cap Folded = {}

\* C15: the above, and a merge commit the user authored is never folded.
C15_UserMergeNeverFolded ==
    /\ C15_FoldsMarkerRun
    /\ Squashed => \A c \in Folded : ~UserAuthoredMerge(c)

\* C16: HEAD is moved by a squash only if the range was empty, squashing was
\* requested (--squash or try-merge.squash) and the first-parent chain of HEAD
\* starts with at least two marker commits; in every other case of an empty
\* range HEAD is unchanged, no commit is written and the run reports "already
\* up to date" with exit code 0; a run with a non-empty range never squashes.
C16_SquashGating ==
    LET requested == squash \/ squashConfig = "true"
        rewrites == pc = "squash" \/ Squashed \/ squash_head # NoneOpt
    IN  /\ rewrites =>
              /\ range = <<>>
              /\ requested
              /\ MarkerRunLength(preHead) >= 2
        /\ Returned /\ range = <<>> =>
              IF requested /\ MarkerRunLength(preHead) >= 2
              THEN Squashed /\ head \notin preCommits
              ELSE /\ head = preHead
                   /\ Written = {}
                   /\ stdout.final = "already up-to-date"
                   /\ exit_code = Some(SUCCESS)
        /\ range # <<>> => ~rewrites

\* C16 witness: squashing was requested by the configuration alone, the
\* range was empty, and the single marker commit on top was left alone.
C16_Witness ==
    /\ Returned
    /\ range = <<>>
    /\ ~squash
    /\ squashConfig = "true"
    /\ MarkerRunLength(preHead) = 1
    /\ head = preHead
    /\ stdout.final = "already up-to-date"

\* C17: after a squash every commit the old HEAD reached, except the folded
\* marker commits, is still reached by the new HEAD.
C17_AncestriesPreserved ==
    Squashed =>
        (Ancestry(commits, preHead) \ Folded) \subseteq Ancestry(commits, head)

\* C17 when every folded commit merged a commit the target reaches (this
\* much holds).
C17_PreservedWhenTargetReaches ==
    Squashed /\ (\A c \in Folded :
                    commits[c].parents[2] \in Ancestry(commits, target))
        => (Ancestry(commits, preHead) \ Folded)
               \subseteq Ancestry(commits, head)

\* C18: at every point of a run, also where the process is killed or a call
\* fails between two steps, HEAD points to the commit it pointed to when the
\* run started or to a commit the run has fully written.
C18_AtomicAdvance == head = preHead \/ head \in Written

\* C18 for the walk alone (this much holds): in a run with a non-empty range
\* HEAD is the commit it was or a commit the run wrote.
C18_WalkAdvanceAtomic == range # <<>> => head = preHead \/ head \in Written

\* The last run before this one was killed.
AfterKill == earlier # <<>> /\ earlier[Len(earlier)].pc = "killed"

\* C19: wherever a run is killed, the repository it leaves passes the
\* precondition gate of the next run, which then computes the revision range
\* against the current HEAD and goes on from there.
C19_Resumable ==
    [][AfterKill /\ pc = "start"
        => /\ pc' \in {"walk", "empty", "killed"}
           /\ pc' # "killed" => range' \in RevList(commits, head, target)]_vars

\* C19 for the kills that leave the working tree at HEAD (this much holds):
\* the next run passes the gate and computes the range against HEAD.
C19_ResumableWhenClean ==
    [][AfterKill /\ pc = "start" /\ workTree = commits[head].tree
        => /\ pc' \in {"walk", "empty", "killed"}
           /\ pc' # "killed" => range' \in RevList(commits, head, target)]_vars

\* The run before this one returned with exit code 0 and without a Blocked
\* revision: it merged the target, squashed, or found nothing to merge.
AfterCompleted ==
    /\ earlier # <<>>
    /\ earlier[Len(earlier)].pc = "done"
    /\ ~earlier[Len(earlier)].blocked
    /\ earlier[Len(earlier)].exit_code = Some(SUCCESS)

\* C20 (as claimed): the run that follows a completed run, with nothing
\* changed in between, reports "already up to date", creates no commit and
\* leaves HEAD unchanged, with or without --squash.
C20_SecondRunIsNoOp ==
    AfterCompleted /\ Returned =>
        /\ stdout.final = "already up-to-date"
        /\ Written = {}
        /\ head = preHead

\* C20 (amended): the run that follows a completed run, with nothing changed
\* in between, finds an empty range, attempts no merge and hands nothing
\* over.  It reports "already up to date", creates no commit and leaves HEAD
\* unchanged when the run before it found nothing to merge or squashed, and
\* whenever squashing is not requested or fewer than two marker commits are
\* on top of HEAD; otherwise (the run before merged, squashing is requested
\* and at least two marker commits are on top) it squashes them: one new
\* commit with the tree of the HEAD it found.  In all cases it exits with 0.
C20_SecondRunAddsNoMerge ==
    /\ AfterCompleted /\ pc \notin {"fetch", "start"} =>
          /\ range = <<>>
          /\ attempts = <<>>
          /\ handoff = <<>>
    /\ AfterCompleted /\ Returned =>
          /\ exit_code = Some(SUCCESS)
          /\ commits[head].tree = commits[preHead].tree
          /\ IF /\ squash \/ squashConfig = "true"
                /\ MarkerRunLength(preHead) >= 2
             THEN /\ earlier[Len(earlier)].at
                        \notin {"already up-to-date", "squashed"}
                  /\ stdout.final = "squashed"
                  /\ Written = {head}
             ELSE /\ stdout.final = "already up-to-date"
                  /\ Written = {}
                  /\ head = preHead

\* C20 witness: the first run squashed, and the second run, with --squash
\* again, found nothing to do.
C20_Witness ==
    /\ AfterCompleted
    /\ earlier[Len(earlier)].at = "squashed"
    /\ squash
    /\ Returned
    /\ stdout.final = "already up-to-date"
    /\ head = preHead

\* ------------------------------------------------------------ C21 .. C27

\* Some conflicting path of cl is not valid UTF-8.
HasBadPath(cl) == \E i \in 1..Len(cl) : ~cl[i].path.utf8

\* The loop over cl decodes a path that is not UTF-8: every conflict listed
\* before it has a "their" entry and a path some glob matches.
MeetsBadPath(cl) ==
    \E i \in 1..Len(cl) :
        /\ cl[i].their
        /\ ~cl[i].path.utf8
        /\ \A j \in 1..(i - 1) :
              /\ cl[j].their
              /\ cl[j].path.utf8
              /\ \E g \in globs : GlobMatches(g, cl[j].path)

\* The run fails at this attempt: nothing is committed, no revision becomes
\* the failing one, and no step follows.
FailsHere ==
    /\ RepoUntouched
    /\ pc' = "failed"
    /\ exit_code' = Some(FAILURE)
    /\ last_failing_revision' = last_failing_revision
    /\ skipped' = skipped

\* C21 (as claimed): if any conflicting path of an attempt is not valid
\* UTF-8, wherever it stands among the conflicts, the run fails: the attempt
\* is neither committed nor Blocked and no revision is attempted after it.
C21_EncodingAlwaysFatal ==
    [][Attempting /\ HasBadPath(UpcomingConflicts) => FailsHere]_vars

\* C21 (amended): the run fails when the loop over the conflicts reaches the
\* path that is not UTF-8, that is when every conflict listed before it is
\* covered by the ignore globs and has a "their" entry; when an earlier
\* conflict vetoes the attempt, the attempt is Blocked as usual, the path is
\* never decoded and the walk goes on.  A run that failed takes no further
\* step.
C21_EncodingFatalWhenMet ==
    [][/\ (Attempting /\ HasBadPath(UpcomingConflicts) =>
              IF MeetsBadPath(UpcomingConflicts)
              THEN FailsHere
              ELSE /\ RepoUntouched
                   /\ pc' = "walk"
                   /\ last_failing_revision' = Some(Upcoming)
                   /\ skipped' = skipped + 1)
       /\ (pc = "failed" => run' # run)]_vars

\* C21 witness: a.lock was re-staged under "*.lock", then the path that is
\* not UTF-8 was met and the run failed with nothing committed.
C21_Witness ==
    /\ pc = "failed"
    /\ globs = {GlobAnyLock}
    /\ attempts # <<>>
    /\ attempts[Len(attempts)].kind = "err"
    /\ conflicts[attempts[Len(attempts)].revision] =
           <<Conflict(ALock, TRUE), Conflict(BadPath, TRUE)>>
    /\ Written = {}

\* The attempt is Blocked: nothing is committed, the revision becomes the
\* failing one and the walk goes on.
BlockedHere ==
    /\ RepoUntouched
    /\ pc' = "walk"
    /\ last_failing_revision' = Some(Upcoming)

\* The attempt commits a merge.
CommitsHere ==
    /\ head' \notin DOMAIN commits
    /\ head' \in DOMAIN commits'
    /\ pc' = "checkout"

\* At least one configured glob matches the path.
SomeGlobMatches(path) == \E g \in globs : GlobMatches(g, path)

\* C22 (as claimed): a conflicting path is ignorable iff at least one glob
\* matches it, so an attempt is Blocked iff some conflicting path matches no
\* glob; with no glob every attempt with a conflict is Blocked; an attempt
\* without conflicts is merged whatever the globs.
C22_MatchAloneDecides ==
    [][Attempting =>
        LET cl == UpcomingConflicts
        IN  /\ cl = <<>> => CommitsHere
            /\ globs = {} /\ cl # <<>> => BlockedHere
            /\ BlockedHere <=>
                  \E i \in 1..Len(cl) : ~SomeGlobMatches(cl[i].path)]_vars

\* The i-th conflict of cl is ignorable: it has a "their" entry and a valid
\* path that at least one glob matches.
Ignorable(cl, i) ==
    /\ cl[i].their
    /\ cl[i].path.utf8
    /\ SomeGlobMatches(cl[i].path)

\* The i-th conflict of cl vetoes: it has no "their" entry, or its valid path
\* matches no glob.
Vetoes(cl, i) ==
    \/ ~cl[i].their
    \/ cl[i].path.utf8 /\ ~SomeGlobMatches(cl[i].path)

\* C22 (amended): a conflict is ignorable iff it has a "their" entry and at
\* least one glob matches its path, whatever the other globs are.  The
\* conflicts are examined in index order: the attempt is Blocked iff a vetoing
\* conflict comes before any path that is not UTF-8.  With no glob an attempt
\* with a conflict is Blocked, or the run fails when the first conflict has
\* a "their" entry and a path that is not UTF-8.  An attempt without
\* conflicts is merged whatever the globs.
C22_Classification ==
    [][Attempting =>
        LET cl == UpcomingConflicts
        IN  /\ cl = <<>> => CommitsHere
            /\ globs = {} /\ cl # <<>> =>
                  IF cl[1].their /\ ~cl[1].path.utf8
                  THEN FailsHere
                  ELSE BlockedHere
            /\ BlockedHere <=>
                  \E i \in 1..Len(cl) :
                      /\ Vetoes(cl, i)
                      /\ \A j \in 1..(i - 1) : Ignorable(cl, j)]_vars

\* C22 witness: with the globs Cargo.lock and main.rs, an attempt whose
\* conflicts are Cargo.lock and main.rs, each matched by one glob only, was
\* not Blocked.
C22_Witness ==
    /\ globs = {GlobCargoLock, GlobMainRs}
    /\ attempts # <<>>
    /\ attempts[Len(attempts)].kind # "none"
    /\ conflicts[attempts[Len(attempts)].revision] =
           <<Conflict(CargoLock, TRUE), Conflict(MainRs, TRUE)>>

\* The revisions the merge attempts of this run were given, in order.
AttemptedSeq == [i \in 1..Len(attempts) |-> attempts[i].revision]

IsSquashResult(c) ==
    /\ commits[c].message.words = <<"Merge", "branch">>
    /\ commits[c].message.tail = ""

\* The run before this one squashed.
AfterSquash ==
    /\ earlier # <<>>
    /\ earlier[Len(earlier)].at = "squashed"

\* C24: the commit a squash writes has the message "Merge branch <target>",
\* which does not start with "Merge commit"; the run that follows a squash
\* writes no commit and leaves HEAD where it was; and no result of a squash
\* is ever among the marker commits on top of HEAD, nor among the commits a
\* squash folded.
C24_SquashResultIsNoMarker ==
    /\ Squashed =>
          /\ commits[head].message.words = <<"Merge", "branch">>
          /\ commits[head].message.rev = target
          /\ ~CarriesMarker(head)
    /\ AfterSquash =>
          /\ pc # "squash"
          /\ Written = {}
          /\ head = preHead
          /\ Returned => stdout.final = "already up-to-date"
    /\ \A c \in DOMAIN commits :
          IsSquashResult(c) =>
              /\ c \notin MarkerRun(head)
              /\ Squashed => c \notin Folded

\* C24 witness: a squash folded the marker commits above the result of an
\* earlier squash and stopped at it; the next run, with --squash again, left
\* HEAD on the new result.
C24_Witness ==
    /\ AfterSquash
    /\ squash
    /\ Returned
    /\ head = preHead
    /\ IsSquashResult(head)
    /\ IsSquashResult(commits[head].parents[1])

\* Some attempt of the run committed a merge.
HasMerged == \E i \in 1..Len(attempts) : attempts[i].kind = "some"

\* C25: the walk stops at its first successful attempt.  Once an attempt
\* committed, no revision is popped and no attempt is made; the run writes at
\* most one automatic merge commit; the successful attempt is the last one of
\* the run and every attempt before it was Blocked.
C25_StopsAtFirstMerge ==
    /\ [][HasMerged => rev_list' = rev_list /\ attempts' = attempts]_vars
    /\ [](Cardinality(AutoCommits) <= 1)
    /\ [](HasMerged <=> AutoCommits # {})
    /\ [](\A i \in 1..Len(attempts) :
              attempts[i].kind = "some" =>
                  /\ i = Len(attempts)
                  /\ \A j \in 1..(i - 1) : attempts[j].kind = "none")

\* C25 witness: of a range of three the newest revision was Blocked, the
\* second merged, and the run ended with the oldest still in the list.
C25_Witness ==
    /\ Over
    /\ Len(range) = 3
    /\ Len(attempts) = 2
    /\ attempts[1].kind = "none"
    /\ attempts[2].kind = "some"
    /\ Len(rev_list) = 1
    /\ Cardinality(AutoCommits) = 1

\* has_file_changes() would answer false: the working tree and the index are
\* the tree of HEAD.
Clean == ~HasFileChanges(commits, head, workTree)

\* The run is inside an automatic step: the merge commit is written and not
\* yet checked out, or the branch is reset and the squash commit not yet
\* written.
InsideStep == pc \in {"checkout", "squash"}

\* Each automatic step ends with the working tree and the index equal to the
\* tree of the new HEAD.
StepsEndClean ==
    /\ [][pc = "checkout" => Clean' /\ head' = head /\ pc' = "report"]_vars
    /\ [][pc = "squash" => Clean' /\ head' \notin DOMAIN commits]_vars

DefaultBranch == GetDefaultBranch("origin", remote_HEAD)

\* The upstream of the branch to delete is the default branch of origin.
UpstreamIsDefault ==
    /\ branch_name \in BranchNames
    /\ tracking[branch_name] # NoneOpt
    /\ DefaultBranch # NoneOpt
    /\ tracking[branch_name][1] = <<"refs", "remotes">> \o DefaultBranch[1]

\* Nothing was deleted and nothing will be: the run is at its start or it
\* failed, and the local branches and those of the remote are all there.
NothingDeleted ==
    /\ delete_pc \in {"start", "failed"}
    /\ local_branches = BranchNames
    /\ remote_branches = {<<b>> : b \in BranchNames}

\* C27 (as claimed): when the upstream of the branch to delete is the
\* default branch of the remote (the target of refs/remotes/<remote>/HEAD, or
\* <remote>/master when that reference does not exist) neither the remote
\* branch nor the local branch is deleted and the run fails; the branch HEAD
\* points to is never deleted; and a local branch that has an upstream is
\* deleted only once its branch on the remote is deleted.
C27_NeverDeletesDefault ==
    /\ [](UpstreamIsDefault => NothingDeleted)
    /\ [](HEAD \in local_branches)
    /\ [][local_branches' # local_branches /\ tracking[branch_name] # NoneOpt
            => <<branch_name>> \notin remote_branches]_vars

\* C27, the part that holds: when refs/remotes/<remote>/HEAD exists and the
\* upstream of the branch to delete is its target, nothing is deleted, and the
\* run fails with DeletingDefaultBranch unless it was refused before; the
\* branch HEAD points to is never deleted; a local branch is deleted only
\* after every guard passed and, when it has an upstream, after the push
\* returned without error.
C27_GuardedWhenHeadReferenceExists ==
    /\ [](UpstreamIsDefault /\ remote_HEAD.kind = "symbolic" =>
            /\ NothingDeleted
            /\ delete_pc = "failed" =>
                  delete_error \in {"DeletingDefaultBranch",
                                    "DeletingCurrentHead",
                                    "Could not find remote name"})
    /\ [](HEAD \in local_branches)
    /\ [][local_branches' # local_branches =>
            /\ delete_pc = "local"
            /\ local_branches' = local_branches \ {branch_name}
            /\ delete_error = "none"]_vars
    /\ [][remote_branches' # remote_branches =>
            /\ delete_pc = "push"
            /\ branch_name # HEAD
            /\ remote_branches' = remote_branches \ {<<branch_name>>}]_vars

====
